---- MODULE Spec2Model ----
(***************************************************************************)
(* The CHIP-8 virtual machine of package chip8 (type CHIP8 and its         *)
(* methods New, Reset, LoadROM, SetKey, UpdateTimers, Cycle and            *)
(* executeOpcode) as a state machine.  Every field of the struct is a      *)
(* variable; every exported method is an action.  A Go run-time panic      *)
(* (array index out of range) is the outcome "panic memory" or "panic      *)
(* keys" of a call, after which the process makes no further call.         *)
(***************************************************************************)
EXTENDS Integers, Sequences, FiniteSets, TLC

VARIABLES Memory, Display, Stack, Keys, V, I, PC, SP, DelayTimer, SoundTimer,
          DrawFlag, WaitingForKey, KeyRegister,
          lastCall, nLoads, nCycles, wait, calls,
          running, paused, keyboard, rom, pos, event, rendered

mvars == <<Memory, V, I, PC, Stack, SP, DelayTimer, SoundTimer, Display,
           Keys, DrawFlag, WaitingForKey, KeyRegister>>
(* The machine and the history of its calls *)
cvars == <<Memory, V, I, PC, Stack, SP, DelayTimer, SoundTimer, Display,
           Keys, DrawFlag, WaitingForKey, KeyRegister,
           lastCall, nLoads, nCycles, wait, calls>>
(* The variables of main: running, paused, the keys of the keyboard        *)
(* adapter, the ROM read at the start (its index in Roms), the position in *)
(* the loop, the event handled by the latest step and the frame that the   *)
(* latest Render presented.                                                *)
dvars == <<running, paused, keyboard, rom, pos, event, rendered>>
vars == <<cvars, dvars>>

----------------------------------------------------------------------------
(* Program constants *)
MemorySize == 4096
NumRegisters == 16
StackSize == 16
DisplayWidth == 64
DisplayHeight == 32
NumKeys == 16
ProgramStart == 512

(* Widths of the Go integer types *)
Uint8(n) == n % 256
Uint16(n) == n % 65536

Fontset ==
  << 240, 144, 144, 144, 240,   32,  96,  32,  32, 112,
     240,  16, 240, 128, 240,  240,  16, 240,  16, 240,
     144, 144, 240,  16,  16,  240, 128, 240,  16, 240,
     240, 128, 240, 144, 240,  240,  16,  32,  64,  64,
     240, 144, 240, 144, 240,  240, 144, 240,  16, 240,
     240, 144, 240, 144, 144,  224, 144, 224, 144, 224,
     240, 128, 128, 128, 240,  224, 144, 144, 144, 224,
     240, 128, 240, 128, 240,  240, 128, 240, 128, 128 >>

----------------------------------------------------------------------------
(* Bitwise operators of Go on 8-bit operands *)
Bit(a, k) == (a \div (2 ^ k)) % 2

OrBit(p, q) == IF p + q > 0 THEN 1 ELSE 0
AndBit(p, q) == p * q
XorBit(p, q) == (p + q) % 2

BitOf(op, p, q) ==
  CASE op = "|" -> OrBit(p, q)
    [] op = "&" -> AndBit(p, q)
    [] op = "^" -> XorBit(p, q)

RECURSIVE BitFold(_, _, _, _)
BitFold(op, a, b, k) ==
  IF k = 8 THEN 0
  ELSE (2 ^ k) * BitOf(op, Bit(a, k), Bit(b, k)) + BitFold(op, a, b, k + 1)

BitOr(a, b) == BitFold("|", a, b, 0)
BitAnd(a, b) == BitFold("&", a, b, 0)
BitXor(a, b) == BitFold("^", a, b, 0)

----------------------------------------------------------------------------
(* The machine as a value: the receiver c of the methods *)
Machine ==
  [Memory |-> Memory, V |-> V, I |-> I, PC |-> PC, Stack |-> Stack, SP |-> SP,
   DelayTimer |-> DelayTimer, SoundTimer |-> SoundTimer, Display |-> Display,
   Keys |-> Keys, DrawFlag |-> DrawFlag, WaitingForKey |-> WaitingForKey,
   KeyRegister |-> KeyRegister]

Becomes(c) ==
  /\ Memory' = c.Memory
  /\ V' = c.V
  /\ I' = c.I
  /\ PC' = c.PC
  /\ Stack' = c.Stack
  /\ SP' = c.SP
  /\ DelayTimer' = c.DelayTimer
  /\ SoundTimer' = c.SoundTimer
  /\ Display' = c.Display
  /\ Keys' = c.Keys
  /\ DrawFlag' = c.DrawFlag
  /\ WaitingForKey' = c.WaitingForKey
  /\ KeyRegister' = c.KeyRegister

(* Reset: every field zeroed, PC at the program start, DrawFlag set, the   *)
(* fontset copied to address 0.                                            *)
ResetState ==
  [Memory |-> [a \in 0..(MemorySize - 1) |->
                 IF a < Len(Fontset) THEN Fontset[a + 1] ELSE 0],
   V |-> [r \in 0..(NumRegisters - 1) |-> 0],
   I |-> 0,
   PC |-> ProgramStart,
   Stack |-> [s \in 0..(StackSize - 1) |-> 0],
   SP |-> 0,
   DelayTimer |-> 0,
   SoundTimer |-> 0,
   Display |-> [p \in 0..(DisplayWidth * DisplayHeight - 1) |-> 0],
   Keys |-> [k \in 0..(NumKeys - 1) |-> FALSE],
   DrawFlag |-> TRUE,
   WaitingForKey |-> FALSE,
   KeyRegister |-> 0]

----------------------------------------------------------------------------
(* The outcome of a call: the machine it leaves and the error it returns   *)
(* ("none" for nil, "panic memory" and "panic keys" for the run-time panic *)
(* of an index beyond Memory and beyond Keys).                             *)
Result(c, err) == [c |-> c, err |-> err]

(* Operand fields of an opcode *)
OpGroup(opcode) == opcode \div 4096
OpX(opcode) == (opcode \div 256) % 16
OpY(opcode) == (opcode \div 16) % 16
OpN(opcode) == opcode % 16
OpNN(opcode) == opcode % 256
OpNNN(opcode) == opcode % 4096

(* Variant: the default case returns no error *)
UnknownOpcodeIgnored(c) == Result(c, "none")

(* Variant: the default case leaves PC at the instruction it refused *)
UnknownOpcodeRewinding(c) ==
  Result([c EXCEPT !.PC = Uint16(c.PC + 65534)], "unknown opcode")

(* The default case of the groups 8, E and F *)
UnknownOpcode(c) == Result(c, "unknown opcode")

(* Variant: 00E0 clears the display and leaves DrawFlag as it is *)
ClearScreenQuiet(c) ==
  Result([c EXCEPT !.Display = [p \in 0..(DisplayWidth * DisplayHeight - 1) |-> 0]],
         "none")

(* 00E0 *)
ClearScreen(c) ==
  Result([c EXCEPT !.Display = [p \in 0..(DisplayWidth * DisplayHeight - 1) |-> 0],
                   !.DrawFlag = TRUE], "none")

(* Variant: 00EE returns to the oldest return address *)
ReturnToFirst(c) ==
  IF c.SP = 0 THEN Result(c, "stack underflow")
  ELSE Result([c EXCEPT !.SP = c.SP - 1, !.PC = c.Stack[0]], "none")

(* Variant: 00EE jumps to the latest return address and keeps it stacked *)
ReturnPeeking(c) ==
  IF c.SP = 0 THEN Result(c, "stack underflow")
  ELSE Result([c EXCEPT !.PC = c.Stack[c.SP - 1]], "none")

(* 00EE *)
Return(c) ==
  IF c.SP = 0 THEN Result(c, "stack underflow")
  ELSE Result([c EXCEPT !.SP = c.SP - 1, !.PC = c.Stack[c.SP - 1]], "none")

(* 0NNN other than 00E0 and 00EE: the empty default case *)
MachineCodeRoutine(c) == Result(c, "none")

(* 1NNN *)
Jump(c, nnn) == Result([c EXCEPT !.PC = nnn], "none")

(* Variant: 2NNN refuses the call that fills the last slot *)
CallShallow(c, nnn) ==
  IF c.SP >= StackSize - 1 THEN Result(c, "stack overflow")
  ELSE Result([c EXCEPT !.Stack[c.SP] = c.PC, !.SP = c.SP + 1, !.PC = nnn],
              "none")

(* 2NNN *)
Call(c, nnn) ==
  IF c.SP >= StackSize THEN Result(c, "stack overflow")
  ELSE Result([c EXCEPT !.Stack[c.SP] = c.PC, !.SP = c.SP + 1, !.PC = nnn],
              "none")

(* Variant: a skip that passes two instructions *)
SkipIfFar(c, cond) ==
  Result(IF cond THEN [c EXCEPT !.PC = Uint16(c.PC + 4)] ELSE c, "none")

(* Variant: the skip is never taken *)
SkipIfNever(c, cond) == Result(c, "none")

(* The skip of 3XNN, 4XNN, 5XY0, 9XY0, EX9E, EXA1 *)
SkipIf(c, cond) ==
  Result(IF cond THEN [c EXCEPT !.PC = Uint16(c.PC + 2)] ELSE c, "none")

(* 8XY4: the sum is stored in VX first, the carry in VF last *)
AddCarry(c, x, y) ==
  LET sum == c.V[x] + c.V[y]
      v1 == [c.V EXCEPT ![x] = Uint8(sum)]
      v2 == [v1 EXCEPT ![15] = IF sum > 255 THEN 1 ELSE 0]
  IN  Result([c EXCEPT !.V = v2], "none")

(* 8XY5: VF is written first, then VX -= VY reads the registers again *)
SubBorrow(c, x, y) ==
  LET v1 == [c.V EXCEPT ![15] = IF c.V[x] >= c.V[y] THEN 1 ELSE 0]
      v2 == [v1 EXCEPT ![x] = Uint8(v1[x] - v1[y])]
  IN  Result([c EXCEPT !.V = v2], "none")

(* 8XY6 *)
ShiftRight(c, x) ==
  LET v1 == [c.V EXCEPT ![15] = c.V[x] % 2]
      v2 == [v1 EXCEPT ![x] = v1[x] \div 2]
  IN  Result([c EXCEPT !.V = v2], "none")

(* 8XY7 *)
SubReverse(c, x, y) ==
  LET v1 == [c.V EXCEPT ![15] = IF c.V[y] >= c.V[x] THEN 1 ELSE 0]
      v2 == [v1 EXCEPT ![x] = Uint8(v1[y] - v1[x])]
  IN  Result([c EXCEPT !.V = v2], "none")

(* 8XYE *)
ShiftLeft(c, x) ==
  LET v1 == [c.V EXCEPT ![15] = c.V[x] \div 128]
      v2 == [v1 EXCEPT ![x] = Uint8(v1[x] * 2)]
  IN  Result([c EXCEPT !.V = v2], "none")

(* Group 8: dispatch on the low nibble *)
Arithmetic(c, opcode, x, y, n) ==
  CASE n = 0 -> Result([c EXCEPT !.V[x] = c.V[y]], "none")
    [] n = 1 -> Result([c EXCEPT !.V[x] = BitOr(c.V[x], c.V[y])], "none")
    [] n = 2 -> Result([c EXCEPT !.V[x] = BitAnd(c.V[x], c.V[y])], "none")
    [] n = 3 -> Result([c EXCEPT !.V[x] = BitXor(c.V[x], c.V[y])], "none")
    [] n = 4 -> AddCarry(c, x, y)
    [] n = 5 -> SubBorrow(c, x, y)
    [] n = 6 -> ShiftRight(c, x)
    [] n = 7 -> SubReverse(c, x, y)
    [] n = 14 -> ShiftLeft(c, x)
    [] OTHER -> UnknownOpcode(c)

(* Variant: the pixels beyond the right edge of the display are dropped *)
RECURSIVE DrawRowClipped(_, _, _, _, _, _)
DrawRowClipped(c, x, y, row, sprite, col) ==
  IF col >= 8 THEN c
  ELSE IF Bit(sprite, 7 - col) # 0
            /\ (c.V[x] % DisplayWidth) + col < DisplayWidth
       THEN LET px == Uint8(c.V[x] + col) % DisplayWidth
                py == Uint8(c.V[y] + row) % DisplayHeight
                idx == py * DisplayWidth + px
                v1 == IF c.Display[idx] = 1 THEN [c.V EXCEPT ![15] = 1]
                      ELSE c.V
                d1 == [c.Display EXCEPT ![idx] = BitXor(c.Display[idx], 1)]
            IN  DrawRowClipped([c EXCEPT !.V = v1, !.Display = d1],
                               x, y, row, sprite, col + 1)
       ELSE DrawRowClipped(c, x, y, row, sprite, col + 1)

(* DXYN, one sprite row from column col on.  V[x] and V[y] are read at     *)
(* every pixel, after the writes to VF made so far.                        *)
RECURSIVE DrawRow(_, _, _, _, _, _)
DrawRow(c, x, y, row, sprite, col) ==
  IF col >= 8 THEN c
  ELSE IF Bit(sprite, 7 - col) # 0
       THEN LET px == Uint8(c.V[x] + col) % DisplayWidth
                py == Uint8(c.V[y] + row) % DisplayHeight
                idx == py * DisplayWidth + px
                v1 == IF c.Display[idx] = 1 THEN [c.V EXCEPT ![15] = 1]
                      ELSE c.V
                d1 == [c.Display EXCEPT ![idx] = BitXor(c.Display[idx], 1)]
            IN  DrawRow([c EXCEPT !.V = v1, !.Display = d1],
                        x, y, row, sprite, col + 1)
       ELSE DrawRow(c, x, y, row, sprite, col + 1)

(* DXYN, the rows from row on; reading the sprite byte beyond the memory   *)
(* panics with the rows drawn so far kept.                                 *)
RECURSIVE DrawRows(_, _, _, _, _)
DrawRows(c, x, y, n, row) ==
  IF row >= n THEN Result([c EXCEPT !.DrawFlag = TRUE], "none")
  ELSE LET addr == Uint16(c.I + row)
       IN  IF addr >= MemorySize THEN Result(c, "panic memory")
           ELSE DrawRows(DrawRow(c, x, y, row, c.Memory[addr], 0),
                         x, y, n, row + 1)

Draw(c, x, y, n) == DrawRows([c EXCEPT !.V[15] = 0], x, y, n, 0)

(* EX9E and EXA1: Keys is indexed by the full byte in VX *)
SkipKey(c, x, wantPressed) ==
  IF c.V[x] >= NumKeys THEN Result(c, "panic keys")
  ELSE SkipIf(c, c.Keys[c.V[x]] = wantPressed)

(* Variant: FX0A steps PC back, to be executed again after the wait *)
WaitKeyRepeat(c, x) ==
  Result([c EXCEPT !.WaitingForKey = TRUE, !.KeyRegister = x,
                   !.PC = Uint16(c.PC - 2)], "none")

(* FX0A *)
WaitKey(c, x) ==
  Result([c EXCEPT !.WaitingForKey = TRUE, !.KeyRegister = x], "none")

(* Writes vals[k], vals[k+1], ... at I+k-1, I+k, ... one element after     *)
(* the other; the first address beyond the memory panics.                  *)
RECURSIVE StoreFrom(_, _, _)
StoreFrom(c, vals, k) ==
  IF k > Len(vals) THEN Result(c, "none")
  ELSE LET addr == Uint16(c.I + (k - 1))
       IN  IF addr >= MemorySize THEN Result(c, "panic memory")
           ELSE StoreFrom([c EXCEPT !.Memory[addr] = vals[k]], vals, k + 1)

(* Variant: FX33 stores the tens without the hundreds taken off *)
StoreBCDTens(c, x) ==
  StoreFrom(c, << c.V[x] \div 100, c.V[x] \div 10, c.V[x] % 10 >>, 1)

(* FX33 *)
StoreBCD(c, x) ==
  StoreFrom(c, << c.V[x] \div 100, (c.V[x] \div 10) % 10, c.V[x] % 10 >>, 1)

(* FX55 copying V0 up to, and not including, Vx *)
StoreRegistersBelow(c, x) == StoreFrom(c, [k \in 1..x |-> c.V[k - 1]], 1)

(* FX55 *)
StoreRegisters(c, x) == StoreFrom(c, [k \in 1..(x + 1) |-> c.V[k - 1]], 1)

(* FX65 *)
RECURSIVE LoadRegisters(_, _, _)
LoadRegisters(c, x, i) ==
  IF i > x THEN Result(c, "none")
  ELSE LET addr == Uint16(c.I + i)
       IN  IF addr >= MemorySize THEN Result(c, "panic memory")
           ELSE LoadRegisters([c EXCEPT !.V[i] = c.Memory[addr]], x, i + 1)

(* Group F: dispatch on the low byte *)
Misc(c, x, nn) ==
  CASE nn = 7 -> Result([c EXCEPT !.V[x] = c.DelayTimer], "none")
    [] nn = 10 -> WaitKey(c, x)
    [] nn = 21 -> Result([c EXCEPT !.DelayTimer = c.V[x]], "none")
    [] nn = 24 -> Result([c EXCEPT !.SoundTimer = c.V[x]], "none")
    [] nn = 30 -> Result([c EXCEPT !.I = Uint16(c.I + c.V[x])], "none")
    [] nn = 41 -> Result([c EXCEPT !.I = Uint16(c.V[x] * 5)], "none")
    [] nn = 51 -> StoreBCD(c, x)
    [] nn = 85 -> StoreRegisters(c, x)
    [] nn = 101 -> LoadRegisters(c, x, 0)
    [] OTHER -> UnknownOpcode(c)

(* executeOpcode; rnd is the byte rand.Intn(256) returns *)
executeOpcode(c, opcode, rnd) ==
  LET x == OpX(opcode)
      y == OpY(opcode)
      n == OpN(opcode)
      nn == OpNN(opcode)
      nnn == OpNNN(opcode)
      g == OpGroup(opcode)
  IN  CASE g = 0 -> (CASE opcode = 224 -> ClearScreen(c)
                       [] opcode = 238 -> Return(c)
                       [] OTHER -> MachineCodeRoutine(c))
        [] g = 1 -> Jump(c, nnn)
        [] g = 2 -> Call(c, nnn)
        [] g = 3 -> SkipIf(c, c.V[x] = nn)
        [] g = 4 -> SkipIf(c, c.V[x] # nn)
        [] g = 5 -> SkipIf(c, c.V[x] = c.V[y])
        [] g = 6 -> Result([c EXCEPT !.V[x] = nn], "none")
        [] g = 7 -> Result([c EXCEPT !.V[x] = Uint8(c.V[x] + nn)], "none")
        [] g = 8 -> Arithmetic(c, opcode, x, y, n)
        [] g = 9 -> SkipIf(c, c.V[x] # c.V[y])
        [] g = 10 -> Result([c EXCEPT !.I = nnn], "none")
        [] g = 11 -> Jump(c, Uint16(nnn + c.V[0]))
        [] g = 12 -> Result([c EXCEPT !.V[x] = BitAnd(rnd, nn)], "none")
        [] g = 13 -> Draw(c, x, y, n)
        [] g = 14 -> (CASE nn = 158 -> SkipKey(c, x, TRUE)
                        [] nn = 161 -> SkipKey(c, x, FALSE)
                        [] OTHER -> UnknownOpcode(c))
        [] OTHER -> Misc(c, x, nn)

----------------------------------------------------------------------------
(* Bounds of the exploration *)
MaxLoads == 2      \* LoadROM calls between two Resets
MaxCycles == 5     \* instructions executed between two Resets
MaxStackCycles == 34 \* instructions executed by a run of nested calls

(* A byte sequence handed to LoadROM: the words of code, big-endian, cut   *)
(* or continued with the byte fill to size bytes.                          *)
BigEndian(code) ==
  [k \in 1..(2 * Len(code)) |->
     IF k % 2 = 1 THEN code[(k + 1) \div 2] \div 256 ELSE code[k \div 2] % 256]

RomData(code, size, fill) ==
  SubSeq(BigEndian(code) \o [k \in 1..size |-> fill], 1, size)

Rom(code) == RomData(code, 2 * Len(code), 0)

(* The ROMs of the driver runs *)
DriverRoms ==
  << \* F30A FF0A 3300 1200 1200: wait for a key into V3, then into VF,
     \* skip if V3 = 0, start again
     Rom(<<62218, 65290, 13056, 4608, 4608>>),
     \* 6102 F115 F118 F00A 1200: set both timers from V1, wait into V0
     Rom(<<24834, 61717, 61720, 61450, 4608>>),
     \* 1203 0012 0300: jump to the odd address 0x203, a jump to itself
     Rom(<<4611, 18, 768>>),
     \* 11FE: jump to 0x1FE, below the program start
     Rom(<<4606>>),
     \* F033 1202: store the BCD of V0 at I = 0, then jump to itself
     Rom(<<61491, 4610>>),
     \* 617B A300 F133 1206: store the BCD of 123 at 0x300
     Rom(<<24955, 41728, 61747, 4614>>) >>

(* The ROMs of the loading runs: a program, programs of the largest size   *)
(* that fits and of one byte more, and the empty program.                  *)
LoadRoms ==
  << \* 6102 F115 2208 1206 D005 F00A: timer, call 0x208, draw, wait
     Rom(<<24834, 61717, 8712, 4614, 53253, 61450>>),
     \* 1200: a jump to itself
     Rom(<<4608>>),
     RomData(<<4608>>, MemorySize - ProgramStart, 18),
     RomData(<<4608>>, MemorySize - ProgramStart + 1, 18),
     RomData(<<>>, 0, 0) >>

(* The ROMs of the single-program runs.  First one word each: every group, *)
(* x in 0..1, the low bytes of LowBytes.                                   *)
LowBytes ==
  << 0, 1, 2, 3, 4, 5, 6, 7, 8, 9, 10, 11, 12, 13, 14, 15,
     16, 17, 18, 19, 20, 21, 22, 23, 24, 25, 26, 27, 28, 29, 30, 31,
     41, 51, 85, 101, 158, 161, 224, 238, 255 >>

WordRoms ==
  [k \in 1..(16 * 2 * Len(LowBytes)) |->
     Rom(<< ((k - 1) \div (2 * Len(LowBytes))) * 4096
            + (((k - 1) \div Len(LowBytes)) % 2) * 256
            + LowBytes[((k - 1) % Len(LowBytes)) + 1] >>)]

(* 6Faa 6ybb 8Fyn: VF = aa, Vy = bb, then a flag-producing opcode with     *)
(* destination VF.                                                         *)
FlagA == <<5, 255>>
FlagB == <<3, 250>>
FlagY == <<1, 15>>
FlagN == <<4, 5, 6, 7, 14>>

FlagRoms ==
  [k \in 1..40 |->
     LET a == FlagA[((k - 1) % 2) + 1]
         b == FlagB[(((k - 1) \div 2) % 2) + 1]
         y == FlagY[(((k - 1) \div 4) % 2) + 1]
         n == FlagN[((k - 1) \div 8) + 1]
     IN  Rom(<<24576 + 15 * 256 + a, 24576 + y * 256 + b,
               32768 + 15 * 256 + y * 16 + n>>)]

(* Accesses beyond the memory *)
EdgeRoms ==
  << Rom(<<8191>>),                 \* 1FFF: fetch at 0xFFF
     Rom(<<24831, 49151>>),         \* 60FF BFFF: jump to 0xFFF + 0xFF
     RomData(<<8190>>, MemorySize - ProgramStart, 0), \* 1FFE: off the end
     Rom(<<45055, 61491>>),         \* AFFF F033
     Rom(<<45055, 61781>>),         \* AFFF F155
     Rom(<<45055, 61797>>),         \* AFFF F165
     Rom(<<45055, 53266>>) >>       \* AFFF D012

(* 60aa 61bb, then a conditional skip on V0 (and V1) *)
SkipB == <<7, 9>>
SkipWords ==
  << 12295, 12297,     \* 3007 3009
     16391, 16393,     \* 4007 4009
     20496, 20752,     \* 5010 5110
     36880, 37136 >>   \* 9010 9110

SkipRoms ==
  [k \in 1..(Len(SkipB) * Len(SkipWords)) |->
     Rom(<<24576 + 7, 24576 + 256 + SkipB[((k - 1) % Len(SkipB)) + 1],
           SkipWords[((k - 1) \div Len(SkipB)) + 1]>>)]

(* 6xaa 6ybb 8xyn: Vx = aa, Vy = bb, then add, subtract or reverse         *)
(* subtract with a destination other than VF and the source V1, VF or Vx.  *)
ArithX == <<0, 14>>
ArithY == <<1, 15, -1>>   \* -1: the source is the destination
ArithA == <<5, 200, 255>>
ArithB == <<3, 100, 255>>
ArithN == <<4, 5, 7>>

ArithRoms ==
  [k \in 1..(2 * 3 * 3 * 3 * 3) |->
     LET x == ArithX[((k - 1) % 2) + 1]
         ysel == ArithY[(((k - 1) \div 2) % 3) + 1]
         y == IF ysel = -1 THEN x ELSE ysel
         a == ArithA[(((k - 1) \div 6) % 3) + 1]
         b == ArithB[(((k - 1) \div 18) % 3) + 1]
         n == ArithN[((k - 1) \div 54) + 1]
     IN  Rom(<<24576 + x * 256 + a, 24576 + y * 256 + b,
               32768 + x * 256 + y * 16 + n>>)]

(* 6xaa 6ybb A20A Dxyn Dxyn and the sprite at 0x20A: the same sprite drawn *)
(* twice at (Vx, Vy).                                                      *)
Sprite == <<255, 129, 0, 60, 165, 1, 128, 24, 66, 36, 90, 231, 15, 240, 170>>
DrawXY == << <<0, 1>>, <<15, 1>>, <<0, 15>>, <<15, 15>>, <<0, 0>> >>
DrawVX == <<0, 60, 250, 255>>
DrawVY == <<0, 30, 250, 255>>
DrawN == <<0, 1, 15>>

DrawRoms ==
  [k \in 1..(5 * 4 * 4 * 3) |->
     LET xy == DrawXY[((k - 1) % 5) + 1]
         vx == DrawVX[(((k - 1) \div 5) % 4) + 1]
         vy == DrawVY[(((k - 1) \div 20) % 4) + 1]
         n == DrawN[((k - 1) \div 80) + 1]
         d == 53248 + xy[1] * 256 + xy[2] * 16 + n
     IN  BigEndian(<<24576 + xy[1] * 256 + vx, 24576 + xy[2] * 256 + vy,
                     41482, d, d>>) \o Sprite]

(* 6xvv Annn Fx33: the BCD of vv stored at nnn *)
BcdV == <<0, 7, 10, 99, 100, 123, 200, 255>>
BcdAt == <<768, 4093>>
BcdX == <<0, 5>>

BcdRoms ==
  [k \in 1..(8 * 2 * 2) |->
     LET v == BcdV[((k - 1) % 8) + 1]
         at == BcdAt[(((k - 1) \div 8) % 2) + 1]
         x == BcdX[((k - 1) \div 16) + 1]
     IN  Rom(<<24576 + x * 256 + v, 40960 + at, 61491 + x * 256>>)]

(* 6xAB Annn Fx55 6x07 Fx65: Vx stored with the registers below it,       *)
(* overwritten and loaded again, nnn up to the last address that fits      *)
RegX == <<0, 1, 15>>
RegAt == <<768, 4095>>

RegRoms ==
  [k \in 1..(3 * 2) |->
     LET x == RegX[((k - 1) % 3) + 1]
         at == IF (k - 1) \div 3 = 0 THEN RegAt[1] ELSE RegAt[2] - x
     IN  Rom(<<24576 + x * 256 + 171, 40960 + at, 61525 + x * 256,
               24576 + x * 256 + 7, 61541 + x * 256>>)]

(* 60vv E09E and 60vv E0A1: the key skips on the key number vv *)
KeyV == <<0, 15, 16, 255>>

KeyRoms ==
  [k \in 1..(4 * 2) |->
     Rom(<<24576 + KeyV[((k - 1) % 4) + 1],
           IF (k - 1) \div 4 = 0 THEN 57502 ELSE 57505>>)]

ExecRoms ==
  WordRoms \o FlagRoms \o EdgeRoms \o SkipRoms \o ArithRoms \o DrawRoms
           \o BcdRoms \o RegRoms \o KeyRoms

(* 6105 F115 220A 00EE 1204 8018 E100 F1FF 00EE: V1 and the delay timer    *)
(* set, then over and over a call of the words that the groups 8, E and F  *)
(* do not define and, back from it, a return with nothing to return to.    *)
FaultRoms ==
  << Rom(<<24837, 61717, 8714, 238, 4612, 32792, 57600, 61951, 238>>) >>

(* The ROMs that main runs *)
MainRoms ==
  << \* F30A D005 00E0 D005 1200: wait for a key into V3, draw the glyph of
     \* 0 at (0, 0), clear the screen, draw again, start again
     Rom(<<62218, 53253, 224, 53253, 4608>>),
     \* D005 8008 D005: draw, then a word that the group 8 does not define
     Rom(<<53253, 32776, 53253>>) >>

(* The ROMs of the nested calls: k times a call of the address 4 bytes on, *)
(* a return behind every call and a return behind the last; k up to one    *)
(* more than the stack holds.                                              *)
StackRoms ==
  [k \in 1..(StackSize + 1) |->
     Rom([j \in 1..(2 * k + 1) |->
            IF j % 2 = 1 /\ j < 2 * k + 1
            THEN 8192 + ProgramStart + 2 * (j - 1) + 4 ELSE 238])]

Roms ==
  DriverRoms \o LoadRoms \o ExecRoms \o FaultRoms \o MainRoms \o StackRoms

DriverRomIds == 1..Len(DriverRoms)
LoadRomIds == (Len(DriverRoms) + 1)..(Len(DriverRoms) + Len(LoadRoms))
ExecRomIds ==
  (Len(DriverRoms) + Len(LoadRoms) + 1)
    ..(Len(DriverRoms) + Len(LoadRoms) + Len(ExecRoms))
FaultRomIds ==
  (Len(DriverRoms) + Len(LoadRoms) + Len(ExecRoms) + 1)
    ..(Len(DriverRoms) + Len(LoadRoms) + Len(ExecRoms) + Len(FaultRoms))
MainRomIds ==
  (Len(Roms) - Len(StackRoms) - Len(MainRoms) + 1)
    ..(Len(Roms) - Len(StackRoms))
StackRomIds == (Len(Roms) - Len(StackRoms) + 1)..Len(Roms)

(* The keys the input adapter passes to SetKey and the bytes rand returns *)
KeyInputs == {0, 15, 16}

(* The keyboard keys of the events that main receives: X, R and V of the   *)
(* keypad, P and Escape of the controls, and a key with no meaning         *)
Syms == {"x", "r", "v", "p", "escape", "space"}
RandBytes == {0, 165, 255}

----------------------------------------------------------------------------
(* History of the calls: the last call made and what it returned (for a    *)
(* Cycle also whether the display was blank when it was called), the       *)
(* latest key-wait: the address of its FX0A, its register, the key that    *)
(* resolved it and the address of the first fetch after it began, and the  *)
(* return addresses of the subroutine calls not yet returned from.         *)
NoCall(op) ==
  [op |-> op, err |-> "none", at |-> -1, opcode |-> -1, arg |-> -1,
   pressed |-> FALSE, blank |-> FALSE]
NoWait == [at |-> -1, reg |-> -1, key |-> -1, next |-> -1]

Panics == {"panic memory", "panic keys"}
Running == lastCall.err \notin Panics

(* No event handled by the step *)
NoEvent == [sym |-> "none", down |-> FALSE]

(* New: the zero value of the struct, then Reset; the variables of main as *)
(* they are before the ROM is loaded                                       *)
Init ==
  /\ Memory = ResetState.Memory
  /\ V = ResetState.V
  /\ I = ResetState.I
  /\ PC = ResetState.PC
  /\ Stack = ResetState.Stack
  /\ SP = ResetState.SP
  /\ DelayTimer = ResetState.DelayTimer
  /\ SoundTimer = ResetState.SoundTimer
  /\ Display = ResetState.Display
  /\ Keys = ResetState.Keys
  /\ DrawFlag = ResetState.DrawFlag
  /\ WaitingForKey = ResetState.WaitingForKey
  /\ KeyRegister = ResetState.KeyRegister
  /\ lastCall = NoCall("New")
  /\ nLoads = 0
  /\ nCycles = 0
  /\ wait = NoWait
  /\ calls = <<>>
  /\ running = TRUE
  /\ paused = FALSE
  /\ keyboard = [k \in 0..(NumKeys - 1) |-> FALSE]
  /\ rom = 0
  /\ pos = "start"
  /\ event = NoEvent
  /\ rendered = <<>>

(* Variant: Reset leaves the keys as they are *)
ResetKeepingKeys ==
  /\ Running
  /\ Becomes([ResetState EXCEPT !.Keys = Keys])
  /\ lastCall' = [NoCall("Reset") EXCEPT !.arg = nCycles]
  /\ nLoads' = 0
  /\ nCycles' = 0
  /\ wait' = NoWait
  /\ calls' = <<>>

(* Reset; the history keeps the number of instructions run before it *)
Reset ==
  /\ Running
  /\ Becomes(ResetState)
  /\ lastCall' = [NoCall("Reset") EXCEPT !.arg = nCycles]
  /\ nLoads' = 0
  /\ nCycles' = 0
  /\ wait' = NoWait
  /\ calls' = <<>>

(* Variant: the bound of LoadROM off by one *)
RomTooLargeStrict(data) == Len(data) >= MemorySize - ProgramStart

(* LoadROM *)
RomTooLarge(data) == Len(data) > MemorySize - ProgramStart

(* Variant: LoadROM copies to address 0 *)
LoadROMAtZero(c, data) ==
  IF Len(data) > MemorySize - ProgramStart THEN Result(c, "ROM too large")
  ELSE Result([c EXCEPT !.Memory =
                 [a \in 0..(Len(data) - 1) |-> data[a + 1]] @@ c.Memory],
              "none")

(* Variant: LoadROM zero-fills the program space behind the ROM *)
LoadROMClearing(c, data) ==
  IF Len(data) > MemorySize - ProgramStart THEN Result(c, "ROM too large")
  ELSE Result([c EXCEPT !.Memory =
                 [a \in ProgramStart..(MemorySize - 1) |->
                    IF a < ProgramStart + Len(data)
                    THEN data[a - ProgramStart + 1] ELSE 0] @@ c.Memory],
              "none")

(* The loop of LoadROM, mem[at + i] = data[i] for every i, for a data that *)
(* fits.  The two branches denote the same array; each is the one quicker  *)
(* to evaluate for its length of data.                                     *)
CopyAt(mem, at, data) ==
  IF 2 * Len(data) < MemorySize
  THEN [a \in at..(at + Len(data) - 1) |-> data[a - at + 1]] @@ mem
  ELSE [a \in 0..(MemorySize - 1) |->
          IF a >= at /\ a - at < Len(data) THEN data[a - at + 1] ELSE mem[a]]

LoadROMResult(c, data) ==
  IF RomTooLarge(data) THEN Result(c, "ROM too large")
  ELSE Result([c EXCEPT !.Memory = CopyAt(c.Memory, ProgramStart, data)],
              "none")

LoadROM(i) ==
  /\ Running
  /\ nLoads < MaxLoads
  /\ \E data \in {Roms[i]}, c \in {Machine} :
       \E r \in {LoadROMResult(c, data)} :
         /\ Becomes(r.c)
         /\ lastCall' = [NoCall("LoadROM") EXCEPT !.err = r.err, !.arg = i]
  /\ nLoads' = nLoads + 1
  /\ UNCHANGED <<nCycles, wait, calls>>

(* Variant: the key index 16 is accepted *)
KeyInRangeLoose(key) == key <= NumKeys

(* SetKey *)
KeyInRange(key) == key < NumKeys

(* Variant: a release resolves the wait too *)
ResolvesOnRelease(c, pressed) == c.WaitingForKey

Resolves(c, pressed) == c.WaitingForKey /\ pressed

SetKeyResult(c, key, pressed) ==
  IF KeyInRange(key)
  THEN LET c1 == [c EXCEPT !.Keys[key] = pressed]
       IN  IF Resolves(c1, pressed)
           THEN [c1 EXCEPT !.V[c1.KeyRegister] = key, !.WaitingForKey = FALSE]
           ELSE c1
  ELSE c

SetKey(key, pressed) ==
  /\ Running
  /\ Becomes(SetKeyResult(Machine, key, pressed))
  /\ lastCall' = [NoCall("SetKey") EXCEPT !.arg = key, !.pressed = pressed]
  /\ wait' = IF WaitingForKey /\ ~WaitingForKey' THEN [wait EXCEPT !.key = key]
             ELSE wait
  /\ UNCHANGED <<nLoads, nCycles, calls>>

(* Variant: a timer at 0 wraps to 255 *)
TickWrapping(t) == Uint8(t + 255)

(* UpdateTimers *)
Tick(t) == IF t > 0 THEN t - 1 ELSE t

UpdateTimers ==
  /\ Running
  /\ Becomes([Machine EXCEPT !.DelayTimer = Tick(DelayTimer),
                             !.SoundTimer = Tick(SoundTimer)])
  /\ lastCall' = NoCall("UpdateTimers")
  /\ UNCHANGED <<nLoads, nCycles, wait, calls>>

(* Variant: Cycle without the check of WaitingForKey *)
StalledNever(c) == FALSE

(* Cycle: the check of WaitingForKey *)
Stalled(c) == c.WaitingForKey

(* The two bytes at PC, big-endian; -1 when either index is beyond the     *)
(* memory (the index expression panics).                                   *)
Fetch(c) ==
  IF c.PC >= MemorySize \/ Uint16(c.PC + 1) >= MemorySize THEN -1
  ELSE c.Memory[c.PC] * 256 + c.Memory[Uint16(c.PC + 1)]

CycleResult(c, rnd) ==
  IF Stalled(c) THEN Result(c, "none")
  ELSE LET opcode == Fetch(c)
       IN  IF opcode = -1 THEN Result(c, "panic memory")
           ELSE executeOpcode([c EXCEPT !.PC = Uint16(c.PC + 2)], opcode, rnd)

(* rand.Intn is called by CXNN alone *)
RandDraws(c) ==
  IF ~Stalled(c) /\ Fetch(c) # -1 /\ OpGroup(Fetch(c)) = 12 THEN RandBytes
  ELSE {0}

(* The blank display *)
Blank == [p \in 0..(DisplayWidth * DisplayHeight - 1) |-> 0]

(* The return addresses outstanding after a Cycle that left the machine    *)
(* c returning err: a 2NNN that succeeded adds the address behind it, a   *)
(* 00EE that succeeded takes the latest away.                              *)
CallsAfter(c, err) ==
  IF Stalled(c) \/ Fetch(c) = -1 \/ err # "none" THEN calls
  ELSE IF OpGroup(Fetch(c)) = 2 THEN Append(calls, Uint16(c.PC + 2))
  ELSE IF Fetch(c) = 238 THEN SubSeq(calls, 1, Len(calls) - 1)
  ELSE calls

(* Cycle, for a run of at most limit instructions *)
CycleWithin(limit) ==
  /\ Running
  /\ Stalled(Machine) \/ nCycles < limit
  /\ \E rnd \in RandDraws(Machine) :
       LET r == CycleResult(Machine, rnd)
       IN  /\ Becomes(r.c)
           /\ lastCall' = IF Stalled(Machine) THEN NoCall("Cycle")
                          ELSE [NoCall("Cycle") EXCEPT
                                  !.err = r.err, !.at = PC,
                                  !.opcode = Fetch(Machine),
                                  !.blank = (Display = Blank)]
           /\ calls' = CallsAfter(Machine, r.err)
           /\ wait' = IF Stalled(Machine) THEN wait
                      ELSE IF r.c.WaitingForKey
                           THEN [NoWait EXCEPT !.at = PC,
                                               !.reg = r.c.KeyRegister]
                           ELSE IF wait.at # -1 /\ wait.next = -1
                                THEN [wait EXCEPT !.next = PC]
                                ELSE wait
  /\ nCycles' = IF Stalled(Machine) THEN nCycles ELSE nCycles + 1
  /\ UNCHANGED nLoads

Cycle == CycleWithin(MaxCycles)

(* The driver loads the ROM right after New and right after Reset *)
AtStart == lastCall.op \in {"New", "Reset"}

(* The driver runs: any interleaving of the calls on a loaded machine *)
Next ==
  \/ Reset /\ UNCHANGED dvars
  \/ \E i \in DriverRomIds : AtStart /\ LoadROM(i) /\ UNCHANGED dvars
  \/ \E key \in KeyInputs, pressed \in BOOLEAN : SetKey(key, pressed) /\ UNCHANGED dvars
  \/ UpdateTimers /\ UNCHANGED dvars
  \/ Cycle /\ UNCHANGED dvars

Spec == Init /\ [][Next]_vars

(* The loading runs: LoadROM at any moment of a run *)
NextLoad ==
  \/ Reset /\ UNCHANGED dvars
  \/ \E i \in LoadRomIds : LoadROM(i) /\ UNCHANGED dvars
  \/ \E pressed \in BOOLEAN : SetKey(15, pressed) /\ UNCHANGED dvars
  \/ Cycle /\ UNCHANGED dvars

SpecLoad == Init /\ [][NextLoad]_vars

(* The single-program runs: one ROM loaded into the new machine, then run *)
NextExec ==
  \/ \E i \in ExecRomIds : AtStart /\ LoadROM(i) /\ UNCHANGED dvars
  \/ Cycle /\ UNCHANGED dvars

SpecExec == Init /\ [][NextExec]_vars

(* The runs of nested calls: one ROM of StackRoms loaded, then run *)
NextStack ==
  \/ \E i \in StackRomIds : AtStart /\ LoadROM(i) /\ UNCHANGED dvars
  \/ CycleWithin(MaxStackCycles) /\ UNCHANGED dvars

SpecStack == Init /\ [][NextStack]_vars

(* The runs of calls, returns and refused instructions under every call of *)
(* the interface: a ROM loaded into the new or reset machine, and the ROM  *)
(* of FaultRoms loaded over a program that has filled the stack.           *)
NextCalls ==
  \/ Reset /\ UNCHANGED dvars
  \/ \E i \in StackRomIds \cup FaultRomIds :
       (AtStart \/ (i \in FaultRomIds /\ SP = StackSize)) /\ LoadROM(i) /\ UNCHANGED dvars
  \/ \E pressed \in BOOLEAN : SetKey(15, pressed) /\ UNCHANGED dvars
  \/ UpdateTimers /\ UNCHANGED dvars
  \/ CycleWithin(MaxStackCycles) /\ UNCHANGED dvars

SpecCalls == Init /\ [][NextCalls]_vars

----------------------------------------------------------------------------
(* The keyboard adapter *)

(* KeyMap: the keyboard key of every key of the keypad *)
KeyMap ==
  ("1" :> 1) @@ ("2" :> 2) @@ ("3" :> 3) @@ ("4" :> 12)
    @@ ("q" :> 4) @@ ("w" :> 5) @@ ("e" :> 6) @@ ("r" :> 13)
    @@ ("a" :> 7) @@ ("s" :> 8) @@ ("d" :> 9) @@ ("f" :> 14)
    @@ ("z" :> 10) @@ ("x" :> 0) @@ ("c" :> 11) @@ ("v" :> 15)

(* HandleKeyDown and HandleKeyUp: the keys of the adapter after the event, *)
(* the key of the keypad and whether the keyboard key is mapped            *)
HandleKey(keys, keycode, pressed) ==
  IF keycode \in DOMAIN KeyMap
  THEN [keys |-> [keys EXCEPT ![KeyMap[keycode]] = pressed],
        key |-> KeyMap[keycode], ok |-> TRUE]
  ELSE [keys |-> keys, key |-> 0, ok |-> FALSE]

HandleKeyDown(keys, keycode) == HandleKey(keys, keycode, TRUE)
HandleKeyUp(keys, keycode) == HandleKey(keys, keycode, FALSE)

----------------------------------------------------------------------------
(* main: the steps of the emulation loop *)

(* New, then LoadROM of the ROM read from the file *)
Start(i) ==
  /\ pos = "start"
  /\ LoadROM(i)
  /\ lastCall'.err = "none"
  /\ rom' = i
  /\ pos' = "events"
  /\ UNCHANGED <<running, paused, keyboard, event, rendered>>

(* The case K_r: Reset, LoadROM of the same ROM, and the adapter's Reset *)
Reload ==
  /\ \E r \in {LoadROMResult(ResetState, Roms[rom])} :
       /\ Becomes(r.c)
       /\ lastCall' = [NoCall("LoadROM") EXCEPT !.err = r.err, !.arg = rom]
  /\ nLoads' = 1
  /\ nCycles' = 0
  /\ wait' = NoWait
  /\ calls' = <<>>
  /\ keyboard' = [k \in 0..(NumKeys - 1) |-> FALSE]

(* A KEYDOWN event: Escape, P and R are taken by the controls, every other *)
(* key goes to the adapter and, if it is mapped, to SetKey                 *)
KeyDown(sym) ==
  /\ Running /\ pos = "events"
  /\ event' = [sym |-> sym, down |-> TRUE]
  /\ \/ /\ sym = "escape"
        /\ running' = FALSE
        /\ UNCHANGED <<cvars, paused, keyboard>>
     \/ /\ sym = "p"
        /\ paused' = ~paused
        /\ UNCHANGED <<cvars, running, keyboard>>
     \/ /\ sym = "r"
        /\ Reload
        /\ UNCHANGED <<running, paused>>
     \/ /\ sym \notin {"escape", "p", "r"}
        /\ \E h \in {HandleKeyDown(keyboard, sym)} :
             /\ keyboard' = h.keys
             /\ IF h.ok THEN SetKey(h.key, TRUE) ELSE UNCHANGED cvars
        /\ UNCHANGED <<running, paused>>
  /\ UNCHANGED <<rom, pos, rendered>>

(* A KEYUP event: every key goes to the adapter *)
KeyUp(sym) ==
  /\ Running /\ pos = "events"
  /\ event' = [sym |-> sym, down |-> FALSE]
  /\ \E h \in {HandleKeyUp(keyboard, sym)} :
       /\ keyboard' = h.keys
       /\ IF h.ok THEN SetKey(h.key, FALSE) ELSE UNCHANGED cvars
  /\ UNCHANGED <<running, paused, rom, pos, rendered>>

(* The QuitEvent *)
Quit ==
  /\ Running /\ pos = "events"
  /\ running' = FALSE
  /\ event' = NoEvent
  /\ UNCHANGED <<cvars, paused, keyboard, rom, pos, rendered>>

(* PollEvent returns nil: a paused loop starts over, or ends *)
EventsDone ==
  /\ Running /\ pos = "events"
  /\ pos' = IF ~paused THEN "cycle" ELSE IF running THEN "events" ELSE "stopped"
  /\ event' = NoEvent
  /\ UNCHANGED <<cvars, running, paused, keyboard, rom, rendered>>

(* Cycle if the cycle interval has passed; an error ends the loop *)
CycleStep ==
  /\ pos = "cycle"
  /\ \/ /\ Cycle
        /\ running' = (running /\ lastCall'.err = "none")
     \/ /\ Running
        /\ UNCHANGED <<cvars, running>>
  /\ pos' = "timers"
  /\ UNCHANGED <<paused, keyboard, rom, event, rendered>>

(* UpdateTimers if the timer interval has passed *)
TimersStep ==
  /\ pos = "timers"
  /\ \/ UpdateTimers
     \/ Running /\ UNCHANGED cvars
  /\ pos' = "render"
  /\ UNCHANGED <<running, paused, keyboard, rom, event, rendered>>

(* Render and clear DrawFlag if DrawFlag is set; then the loop starts over *)
(* or, with running false, ends                                            *)
RenderStep ==
  /\ Running /\ pos = "render"
  /\ IF DrawFlag
     THEN /\ rendered' = Display
          /\ DrawFlag' = FALSE
     ELSE UNCHANGED <<rendered, DrawFlag>>
  /\ pos' = IF running THEN "events" ELSE "stopped"
  /\ UNCHANGED <<Memory, V, I, PC, Stack, SP, DelayTimer, SoundTimer,
                 Display, Keys, WaitingForKey, KeyRegister,
                 lastCall, nLoads, nCycles, wait, calls>>
  /\ UNCHANGED <<running, paused, keyboard, rom, event>>

NextMain ==
  \/ \E i \in MainRomIds : Start(i)
  \/ \E sym \in Syms : KeyDown(sym)
  \/ \E sym \in Syms : KeyUp(sym)
  \/ Quit
  \/ EventsDone
  \/ CycleStep
  \/ TimersStep
  \/ RenderStep

SpecMain == Init /\ [][NextMain]_vars

----------------------------------------------------------------------------
(* Vocabulary of the properties *)

(* The fields other than Keys, other than PC, other than Memory *)
allButKeys == <<Memory, V, I, PC, Stack, SP, DelayTimer, SoundTimer, Display,
                DrawFlag, WaitingForKey, KeyRegister>>
allButPC == <<Memory, V, I, Stack, SP, DelayTimer, SoundTimer, Display,
              Keys, DrawFlag, WaitingForKey, KeyRegister>>
allButMemory == <<V, I, PC, Stack, SP, DelayTimer, SoundTimer, Display,
                  Keys, DrawFlag, WaitingForKey, KeyRegister>>

(* The step is a Cycle that fetched and decoded an opcode *)
Executed(call) == call.op = "Cycle" /\ call.opcode # -1

(* The instruction table of the architecture: the defined words *)
DefinedInstruction(w) ==
  CASE OpGroup(w) = 0 -> w \in {224, 238}
    [] OpGroup(w) \in {5, 9} -> OpN(w) = 0
    [] OpGroup(w) = 8 -> OpN(w) \in (0..7) \cup {14}
    [] OpGroup(w) = 14 -> OpNN(w) \in {158, 161}
    [] OpGroup(w) = 15 -> OpNN(w) \in {7, 10, 21, 24, 30, 41, 51, 85, 101}
    [] OTHER -> TRUE

(* Jump, call, return and jump with offset assign PC *)
ControlTransfer(w) == OpGroup(w) \in {1, 2, 11} \/ w = 238

(* FX33 and FX55, and the addresses they write from I on *)
IsStore(w) == OpGroup(w) = 15 /\ OpNN(w) \in {51, 85}
StoreWindow(i, w) ==
  {Uint16(i + k) : k \in 0..(IF OpNN(w) = 51 THEN 2 ELSE OpX(w))}

FontIntact == \A a \in 0..79 : Memory[a] = Fontset[a + 1]

----------------------------------------------------------------------------
(* C1: a Cycle called while the machine awaits a key returns nil, fetches  *)
(* nothing and leaves every field of the machine unchanged.                *)
C1_StalledCycleIsNoOp ==
  [][(WaitingForKey /\ lastCall'.op = "Cycle")
       => (lastCall'.err = "none" /\ lastCall'.at = -1 /\ UNCHANGED mvars)]_vars

C1_Witness == WaitingForKey /\ lastCall.op = "Cycle" /\ lastCall.at = -1

(* C2: while the machine awaits a key into V[r], SetKey(k, true) with k in *)
(* 0..15 sets V[r] = k, clears WaitingForKey and sets Keys[k]; SetKey(k,   *)
(* false) clears Keys[k] and changes nothing else.                         *)
C2_SetKeyWhileWaiting ==
  [][(WaitingForKey /\ lastCall'.op = "SetKey" /\ lastCall'.arg \in 0..15)
       => IF lastCall'.pressed
          THEN /\ V' = [V EXCEPT ![KeyRegister] = lastCall'.arg]
               /\ ~WaitingForKey'
               /\ Keys' = [Keys EXCEPT ![lastCall'.arg] = TRUE]
          ELSE /\ Keys' = [Keys EXCEPT ![lastCall'.arg] = FALSE]
               /\ UNCHANGED allButKeys]_vars

C2_Witness ==
  /\ ~WaitingForKey
  /\ lastCall.op = "SetKey" /\ lastCall.pressed /\ lastCall.arg = 15
  /\ wait.reg = 3 /\ wait.key = 15 /\ wait.next = -1
  /\ V[3] = 15

(* C3: the first instruction fetched after an FX0A at address P is the one *)
(* at P + 2, it is fetched only after a SetKey(k, true) with k in 0..15    *)
(* resolved the wait, and Vx = k then.                                     *)
C3_ResumeAfterKey ==
  [][(wait.at # -1 /\ wait.next = -1 /\ lastCall'.op = "Cycle"
        /\ lastCall'.at # -1)
       => (wait.key \in 0..15 /\ lastCall'.at = wait.at + 2
             /\ V[wait.reg] = wait.key)]_vars

C3_Witness ==
  /\ wait.at # -1 /\ wait.key \in 0..15 /\ wait.next = wait.at + 2
  /\ lastCall.op = "Cycle" /\ lastCall.at = wait.next

(* C4, as claimed: every word that is not a defined instruction makes      *)
(* Cycle fail with the unknown-opcode error.                               *)
C4_Original ==
  (Executed(lastCall) /\ ~DefinedInstruction(lastCall.opcode))
    => lastCall.err = "unknown opcode"

(* C4, amended: of the undefined words, those of the groups 8, E and F     *)
(* make Cycle fail with the unknown-opcode error; 0NNN other than 00E0 and *)
(* 00EE returns nil and only advances PC by 2; 5XYn and 9XYn with n # 0    *)
(* return nil and act as 5XY0 and 9XY0.                                    *)
C4_UnknownOpcodes ==
  [][(Executed(lastCall') /\ ~DefinedInstruction(lastCall'.opcode))
       => LET w == lastCall'.opcode
              eq == V[OpX(w)] = V[OpY(w)]
          IN  CASE OpGroup(w) \in {8, 14, 15} ->
                     lastCall'.err = "unknown opcode"
                [] OpGroup(w) = 0 ->
                     /\ lastCall'.err = "none"
                     /\ PC' = PC + 2
                     /\ UNCHANGED allButPC
                [] OpGroup(w) = 5 ->
                     /\ lastCall'.err = "none"
                     /\ PC' = PC + (IF eq THEN 4 ELSE 2)
                     /\ UNCHANGED allButPC
                [] OpGroup(w) = 9 ->
                     /\ lastCall'.err = "none"
                     /\ PC' = PC + (IF eq THEN 2 ELSE 4)
                     /\ UNCHANGED allButPC
                [] OTHER -> FALSE]_vars

C4_Witness ==
  /\ Executed(lastCall) /\ ~DefinedInstruction(lastCall.opcode)
  /\ OpGroup(lastCall.opcode) = 8
  /\ lastCall.err = "unknown opcode"

(* C5, as claimed: a memory access beyond 0..4095 is an error result of    *)
(* Cycle, never a crash.                                                   *)
C5_Original == lastCall.err # "panic memory"

(* C6, as claimed: PC is even and at least 0x200 in every state.           *)
C6_Original == PC % 2 = 0 /\ PC >= ProgramStart

(* C6, amended: Reset sets PC to 0x200; LoadROM, SetKey, UpdateTimers and  *)
(* a stalled or panicking Cycle leave PC unchanged; every executed         *)
(* instruction other than 1NNN, 2NNN, 00EE and BNNN advances PC by 2 or by *)
(* 4.  The four control transfers assign PC without a check.               *)
C6_PCAdvance ==
  [][CASE lastCall'.op = "Reset" -> PC' = ProgramStart
       [] lastCall'.op \in {"LoadROM", "SetKey", "UpdateTimers"} -> PC' = PC
       [] lastCall'.op = "Cycle" /\ lastCall'.opcode = -1 -> PC' = PC
       [] Executed(lastCall') /\ ~ControlTransfer(lastCall'.opcode) ->
            PC' \in {PC + 2, PC + 4}
       [] OTHER -> TRUE]_vars

C6_Witness ==
  /\ Executed(lastCall) /\ OpGroup(lastCall.opcode) = 3
  /\ PC = lastCall.at + 4

FlagOf(n, a, b) ==
  CASE n = 4 -> IF a + b > 255 THEN 1 ELSE 0
    [] n = 5 -> IF a >= b THEN 1 ELSE 0
    [] n = 6 -> a % 2
    [] n = 7 -> IF b >= a THEN 1 ELSE 0
    [] n = 14 -> a \div 128

C8_Original ==
  [][(Executed(lastCall') /\ OpGroup(lastCall'.opcode) = 8
        /\ OpX(lastCall'.opcode) = 15
        /\ OpN(lastCall'.opcode) \in {4, 5, 6, 7, 14})
       => V'[15] = FlagOf(OpN(lastCall'.opcode), V[15],
                          V[OpY(lastCall'.opcode)])]_vars

(* C9: LoadROM returns nil for every length 0..3584 and the too-large      *)
(* error for every length from 3585 on, and then changes no field.         *)
C9_LoadBounds ==
  [][(lastCall'.op = "LoadROM")
       => IF Len(Roms[lastCall'.arg]) <= 3584
          THEN lastCall'.err = "none"
          ELSE lastCall'.err = "ROM too large" /\ UNCHANGED mvars]_vars

C9_Witness ==
  /\ lastCall.op = "LoadROM" /\ lastCall.err = "ROM too large"
  /\ Len(Roms[lastCall.arg]) = 3585
  /\ nCycles > 0

(* C10: a LoadROM(data) that returns nil leaves memory[0x200 + i] =        *)
(* data[i] for every i < len(data), every other memory cell as it was, and *)
(* every other field unchanged.                                            *)
C10_LoadFrame ==
  [][(lastCall'.op = "LoadROM" /\ lastCall'.err = "none")
       => \E data \in {Roms[lastCall'.arg]} :
            /\ Memory' = [a \in ProgramStart..(ProgramStart + Len(data) - 1)
                            |-> data[a - ProgramStart + 1]] @@ Memory
            /\ UNCHANGED allButMemory]_vars

C10_Witness ==
  /\ lastCall.op = "LoadROM" /\ lastCall.err = "none"
  /\ Len(Roms[lastCall.arg]) = 2
  /\ Memory[512] = 18 /\ Memory[513] = 0 /\ Memory[522] = 240
  /\ V[1] = 2 /\ SP = 1 /\ Stack[0] = 518 /\ Display[0] = 1 /\ Keys[15]
  /\ DelayTimer > 0 /\ WaitingForKey

(* C11: New and Reset, called in any state, leave the one fixed state: PC  *)
(* = 0x200, SP, I, the registers, the timers, the stack, the display and   *)
(* KeyRegister 0, no key pressed, no key awaited, DrawFlag set, the glyph  *)
(* table at memory[0..79] and 0 in memory[80..4095].                       *)
C11_ResetIsFixed ==
  (lastCall.op \in {"New", "Reset"})
    => /\ PC = 512 /\ SP = 0 /\ I = 0
       /\ \A r \in 0..15 : V[r] = 0
       /\ DelayTimer = 0 /\ SoundTimer = 0
       /\ \A k \in 0..15 : Stack[k] = 0
       /\ \A p \in 0..2047 : Display[p] = 0
       /\ \A k \in 0..15 : ~Keys[k]
       /\ ~WaitingForKey /\ KeyRegister = 0 /\ DrawFlag
       /\ Memory[0] = 240
       /\ \A a \in 0..79 : Memory[a] = Fontset[a + 1]
       /\ \A a \in 80..4095 : Memory[a] = 0

(* A Reset of a machine that ran four instructions *)
C11_Witness == lastCall.op = "Reset" /\ lastCall.arg = 4

(* C12: a call nnn at address P with SP = s < 16 leaves PC = nnn, SP = s+1 *)
(* and stack[s] = P + 2; a return leaves PC at the return address of the   *)
(* latest call not yet returned from and SP one less, so that k nested     *)
(* calls and k returns restore the addresses last in first out and SP.     *)
C12_CallReturn ==
  [][CASE Executed(lastCall') /\ OpGroup(lastCall'.opcode) = 2 /\ SP < 16 ->
            /\ lastCall'.err = "none"
            /\ PC' = OpNNN(lastCall'.opcode)
            /\ SP' = SP + 1
            /\ Stack' = [Stack EXCEPT ![SP] = PC + 2]
       [] Executed(lastCall') /\ lastCall'.opcode = 238 /\ SP > 0 ->
            /\ lastCall'.err = "none"
            /\ Len(calls) = SP
            /\ PC' = calls[Len(calls)]
            /\ SP' = SP - 1
       [] OTHER -> TRUE]_vars

(* Sixteen nested calls, then sixteen returns *)
C12_Witness ==
  /\ Executed(lastCall) /\ lastCall.opcode = 238 /\ lastCall.err = "none"
  /\ nCycles = 32 /\ SP = 0 /\ calls = <<>> /\ PC = 514
  /\ Stack[0] = 514 /\ Stack[15] = 574

(* C13: a return with SP = 0 fails with stack underflow, a call with SP =  *)
(* 16 fails with stack overflow, a call with SP < 16 does not fail; the    *)
(* failing instruction leaves SP and the stack unchanged.                  *)
C13_StackErrors ==
  [][CASE Executed(lastCall') /\ lastCall'.opcode = 238 /\ SP = 0 ->
            /\ lastCall'.err = "stack underflow"
            /\ SP' = SP /\ Stack' = Stack
       [] Executed(lastCall') /\ OpGroup(lastCall'.opcode) = 2 /\ SP = 16 ->
            /\ lastCall'.err = "stack overflow"
            /\ SP' = SP /\ Stack' = Stack
       [] Executed(lastCall') /\ OpGroup(lastCall'.opcode) = 2 /\ SP < 16 ->
            lastCall'.err = "none"
       [] OTHER -> TRUE]_vars

(* The seventeenth nested call *)
C13_Witness ==
  /\ Executed(lastCall) /\ OpGroup(lastCall.opcode) = 2
  /\ lastCall.err = "stack overflow"
  /\ SP = 16 /\ Len(calls) = 16 /\ nCycles = 17

(* C14: 3XNN, 4XNN, 5XY0 and 9XY0 at address P leave PC = P + 4 when their *)
(* condition (Vx = nn, Vx # nn, Vx = Vy, Vx # Vy) holds and PC = P + 2     *)
(* when it does not, and change no other field.                            *)
SkipCondition(w) ==
  CASE OpGroup(w) = 3 -> V[OpX(w)] = OpNN(w)
    [] OpGroup(w) = 4 -> V[OpX(w)] # OpNN(w)
    [] OpGroup(w) = 5 -> V[OpX(w)] = V[OpY(w)]
    [] OpGroup(w) = 9 -> V[OpX(w)] # V[OpY(w)]

C14_Skips ==
  [][(Executed(lastCall')
        /\ (OpGroup(lastCall'.opcode) \in {3, 4}
              \/ (OpGroup(lastCall'.opcode) \in {5, 9}
                    /\ OpN(lastCall'.opcode) = 0)))
       => /\ lastCall'.err = "none"
          /\ lastCall'.at = PC
          /\ PC' = PC + (IF SkipCondition(lastCall'.opcode) THEN 4 ELSE 2)
          /\ UNCHANGED allButPC]_vars

(* 9010 with V0 = 7 and V1 = 9 *)
C14_Witness ==
  /\ Executed(lastCall) /\ lastCall.opcode = 36880
  /\ V[0] = 7 /\ V[1] = 9 /\ PC = lastCall.at + 4

(* C16: UpdateTimers takes 1 from each timer that is not 0, leaves a timer *)
(* at 0 and changes no other field, awaiting a key or not.                 *)
C16_Timers ==
  [][(lastCall'.op = "UpdateTimers")
       => /\ DelayTimer' = (IF DelayTimer = 0 THEN 0 ELSE DelayTimer - 1)
          /\ SoundTimer' = (IF SoundTimer = 0 THEN 0 ELSE SoundTimer - 1)
          /\ UNCHANGED <<Memory, V, I, PC, Stack, SP, Display, Keys,
                         DrawFlag, WaitingForKey, KeyRegister>>]_vars

(* A tick during a key wait that leaves the two timers apart *)
C16_Witness ==
  /\ lastCall.op = "UpdateTimers" /\ WaitingForKey
  /\ DelayTimer = 0 /\ SoundTimer = 1

(* C15, as claimed: with a = Vx and b = Vy before the instruction and x    *)
(* other than F, 8XY4 leaves Vx = (a + b) mod 256 and VF = 1 iff a + b >   *)
(* 255, 8XY5 leaves Vx = (a - b) mod 256 and VF = 1 iff a >= b, 8XY7       *)
(* leaves Vx = (b - a) mod 256 and VF = 1 iff b >= a, for every y.         *)
ResultOf(n, a, b) ==
  CASE n = 4 -> (a + b) % 256
    [] n = 5 -> (a - b) % 256
    [] n = 7 -> (b - a) % 256

C15_Original ==
  [][(Executed(lastCall') /\ OpGroup(lastCall'.opcode) = 8
        /\ OpN(lastCall'.opcode) \in {4, 5, 7}
        /\ OpX(lastCall'.opcode) # 15)
       => LET w == lastCall'.opcode
          IN  /\ V'[OpX(w)] = ResultOf(OpN(w), V[OpX(w)], V[OpY(w)])
              /\ V'[15] = FlagOf(OpN(w), V[OpX(w)], V[OpY(w)])]_vars

(* C17: a draw with Vx and Vy in registers other than VF inverts the       *)
(* display cell ((Vx + col) mod 64, (Vy + row) mod 32), the sums unbounded *)
(* integers, for every set bit (row, col) of the sprite, one cell a bit,   *)
(* and leaves every other cell unchanged.                                  *)
SetBits(w) ==
  {rc \in (0..(OpN(w) - 1)) \X (0..7) : Bit(Memory[I + rc[1]], 7 - rc[2]) = 1}

DrawTargets(w) ==
  {((V[OpY(w)] + rc[1]) % 32) * 64 + ((V[OpX(w)] + rc[2]) % 64) :
     rc \in SetBits(w)}

C18_Original ==
  [][(Executed(lastCall) /\ OpGroup(lastCall.opcode) = 13
        /\ lastCall.err = "none" /\ lastCall.blank
        /\ Executed(lastCall') /\ lastCall'.opcode = lastCall.opcode
        /\ lastCall'.err = "none"
        /\ SetBits(lastCall.opcode) # {})
       => (V[15] = 0 /\ V'[15] = 1 /\ Display' = Blank)]_vars

(* C19: FX33 with I + 2 <= 4095 stores digits h, t, u with 100 h + 10 t +  *)
(* u = Vx at memory[I], memory[I+1], memory[I+2] and changes no other      *)
(* memory cell, no register and not I.                                     *)
C19_BCD ==
  [][(Executed(lastCall') /\ OpGroup(lastCall'.opcode) = 15
        /\ OpNN(lastCall'.opcode) = 51 /\ I + 2 <= 4095)
       => /\ lastCall'.err = "none"
          /\ \E h \in 0..9, t \in 0..9, u \in 0..9 :
               /\ 100 * h + 10 * t + u = V[OpX(lastCall'.opcode)]
               /\ Memory' = (I :> h @@ (I + 1) :> t @@ (I + 2) :> u) @@ Memory
          /\ V' = V /\ I' = I
          /\ UNCHANGED <<Stack, SP, DelayTimer, SoundTimer, Display, Keys,
                         DrawFlag, WaitingForKey, KeyRegister>>]_vars

(* The BCD of 255 in the last three cells of the memory *)
C19_Witness ==
  /\ Executed(lastCall) /\ lastCall.opcode = 61491 /\ lastCall.err = "none"
  /\ I = 4093 /\ V[0] = 255
  /\ Memory[4093] = 2 /\ Memory[4094] = 5 /\ Memory[4095] = 5

(* C20: SetKey with an index of 16 or more changes no field, pressed or    *)
(* not, awaiting a key or not.                                             *)
C20_KeyOutOfRange ==
  [][(lastCall'.op = "SetKey" /\ lastCall'.arg >= 16) => UNCHANGED mvars]_vars

(* SetKey(16, true) during a key wait *)
C20_Witness ==
  /\ lastCall.op = "SetKey" /\ lastCall.arg = 16 /\ lastCall.pressed
  /\ WaitingForKey


(* C23: FX55 with I + x <= 4095 copies V0..Vx to memory[I..I+x] and FX65   *)
(* copies memory[I..I+x] to V0..Vx, both inclusive of x; the registers     *)
(* above Vx, the memory outside I..I+x and I are unchanged, so that FX65   *)
(* after FX55 with the same x and I loads the values that were stored.     *)
IsRegisterCopy(call, nn) ==
  /\ Executed(call) /\ OpGroup(call.opcode) = 15 /\ OpNN(call.opcode) = nn
  /\ I + OpX(call.opcode) <= 4095

C23_RegisterCopy ==
  [][/\ IsRegisterCopy(lastCall', 85)
          => /\ lastCall'.err = "none"
             /\ Memory' = [a \in I..(I + OpX(lastCall'.opcode)) |-> V[a - I]]
                            @@ Memory
             /\ V' = V /\ I' = I
     /\ IsRegisterCopy(lastCall', 101)
          => /\ lastCall'.err = "none"
             /\ V' = [r \in 0..15 |->
                        IF r <= OpX(lastCall'.opcode) THEN Memory[I + r]
                        ELSE V[r]]
             /\ Memory' = Memory /\ I' = I
     /\ (IsRegisterCopy(lastCall', 85) \/ IsRegisterCopy(lastCall', 101))
          => UNCHANGED <<Stack, SP, DelayTimer, SoundTimer, Display, Keys,
                         DrawFlag, WaitingForKey, KeyRegister>>]_vars

(* FF65 at 4080 brings back the 171 that FF55 stored in the last cell of   *)
(* the memory, after VF was overwritten with 7                             *)
C23_Witness ==
  /\ Executed(lastCall) /\ lastCall.opcode = 65381 /\ lastCall.err = "none"
  /\ nCycles = 5 /\ I = 4080
  /\ V[15] = 171 /\ Memory[4095] = 171 /\ Memory[4094] = 0

(* C24, as claimed: EX9E and EXA1 complete for every value of Vx; the      *)
(* engine never stops on a key index outside 0..15.                        *)
C24_Original == lastCall.err # "panic keys"

(* C25, as claimed: every DXYN that completes, x = F and y = F included,   *)
(* toggles exactly the cells that the set bits of the sprite reach from    *)
(* the origin (Vx, Vy) held when the instruction begins.                   *)
C25_Original ==
  [][(Executed(lastCall') /\ OpGroup(lastCall'.opcode) = 13
        /\ lastCall'.err = "none")
       => \E T \in {DrawTargets(lastCall'.opcode)} :
            Display' = [p \in 0..2047 |->
                          IF p \in T THEN 1 - Display[p] ELSE Display[p]]]_vars


(* C26: a Cycle that returns an error (stack underflow, stack overflow,    *)
(* unknown opcode) for the instruction at address P leaves PC = P + 2 and  *)
(* every other field unchanged.                                            *)
CycleErrors == {"stack underflow", "stack overflow", "unknown opcode"}

C26_ErrorsSkip ==
  [][(lastCall'.op = "Cycle" /\ lastCall'.err \in CycleErrors)
       => /\ lastCall'.at = PC
          /\ PC' = PC + 2
          /\ UNCHANGED allButPC]_vars

(* The word F1FF refused at 0x20E inside a call, with V1 = 5 and the delay *)
(* timer running                                                           *)
C26_Witness ==
  /\ lastCall.op = "Cycle" /\ lastCall.err = "unknown opcode"
  /\ lastCall.opcode = 61951 /\ lastCall.at = 526 /\ PC = 528
  /\ V[1] = 5 /\ SP = 1 /\ DelayTimer = 4

(* C27: in every state 0 <= SP <= 16 and stack[0..SP-1] holds, in the      *)
(* order of the calls, the return addresses of the calls not yet returned  *)
(* from; between two Resets SP changes only by +1 on a call that succeeds  *)
(* and by -1 on a return that succeeds.                                    *)
StackHoldsCalls ==
  /\ SP \in 0..StackSize
  /\ Len(calls) = SP
  /\ \A k \in 1..SP : Stack[k - 1] = calls[k]

SPStep ==
  (lastCall'.op # "Reset" /\ SP' # SP)
    => /\ Executed(lastCall') /\ lastCall'.err = "none"
       /\ \/ OpGroup(lastCall'.opcode) = 2 /\ SP' = SP + 1
          \/ lastCall'.opcode = 238 /\ SP' = SP - 1

C27_StackDiscipline == []StackHoldsCalls /\ [][SPStep]_vars

(* The full stack under a key press, and the return from the sixteenth     *)
(* call after it                                                           *)
C27_Witness ==
  /\ Executed(lastCall) /\ lastCall.opcode = 238 /\ lastCall.err = "none"
  /\ SP = 15 /\ Len(calls) = 15 /\ Stack[14] = calls[15] /\ Keys[15]


(* C21, as claimed: in the loop of main a key-down event of each mapped    *)
(* keyboard key calls SetKey(k, true) for its key k of the keypad, so that *)
(* the key is pressed and a pending key-wait is resolved with k, and a     *)
(* key-up event calls SetKey(k, false).                                    *)
C21_Original ==
  [][(event'.sym \in DOMAIN KeyMap)
       => \E k \in {KeyMap[event'.sym]} :
            /\ lastCall' = [NoCall("SetKey") EXCEPT !.arg = k,
                                                    !.pressed = event'.down]
            /\ Keys' = [Keys EXCEPT ![k] = event'.down]
            /\ (event'.down /\ WaitingForKey)
                 => (~WaitingForKey' /\ V'[KeyRegister] = k)]_vars

(* C22: every step that changes the content of the display leaves DrawFlag *)
(* set, DrawFlag is cleared only by the step that renders the display as   *)
(* it is, and whenever DrawFlag is false the frame rendered last is the    *)
(* display.                                                                *)
DisplayChangeFlagged == (Display' # Display) => DrawFlag'

ClearedByRender ==
  (DrawFlag /\ ~DrawFlag') => (rendered' = Display /\ Display' = Display)

C22_RedrawPending ==
  [](~DrawFlag => rendered = Display)
    /\ [][DisplayChangeFlagged /\ ClearedByRender]_vars

(* The glyph drawn, cleared, drawn again and rendered *)
C22_Witness ==
  /\ ~DrawFlag /\ rendered = Display /\ Display[0] = 1
  /\ nCycles = 4 /\ lastCall.opcode = 53253 /\ pos = "events"

====
